---- MODULE Spec2Model ----
(***************************************************************************)
(* A model of the Woland prototyping parser (src/src/parser.rs).           *)
(*                                                                         *)
(* The parser is a set of pure nom (version 7) rules from an input slice   *)
(* to either (remaining slice, value) or an error.  An input slice is a    *)
(* sequence of one-character strings.  Each rule of parser.rs is an        *)
(* operator of the same name; the nom combinators it is built from are     *)
(* written out with their nom 7 semantics (many0 / many1 / fold_many0      *)
(* stop at the first recoverable error and fail when the inner parser      *)
(* succeeds without consuming; alt tries its alternatives in order from    *)
(* the same position; verify fails without consuming).                     *)
(***************************************************************************)
EXTENDS Integers, Sequences, FiniteSets, TLC

VARIABLES src, input, rule, out

vars == <<src, input, rule, out>>

(***************************************************************************)
(* Characters.                                                             *)
(***************************************************************************)
Lower == {"a","b","c","d","e","f","g","h","i","j","k","l","m",
          "n","o","p","q","r","s","t","u","v","w","x","y","z"}

Upper == {"A","B","C","D","E","F","G","H","I","J","K","L","M",
          "N","O","P","Q","R","S","T","U","V","W","X","Y","Z"}

\* AsChar::is_alpha for char: ASCII alphabetic
IsAlpha(c) == c \in Lower \cup Upper

\* AsChar::is_dec_digit for char: ASCII digit
IsDigit(c) == c \in {"0","1","2","3","4","5","6","7","8","9"}

\* AsChar::is_alphanum for char
IsAlphanum(c) == IsAlpha(c) \/ IsDigit(c)

DigitValue(c) ==
    CASE c = "0" -> 0 [] c = "1" -> 1 [] c = "2" -> 2 [] c = "3" -> 3
      [] c = "4" -> 4 [] c = "5" -> 5 [] c = "6" -> 6 [] c = "7" -> 7
      [] c = "8" -> 8 [] c = "9" -> 9

\* the characters multispace0 skips: space, tab, carriage return, line feed
IsMultispace(c) == c \in {" ", "\t", "\r", "\n"}

\* the characters space0 skips: space, tab
IsSpace(c) == c \in {" ", "\t"}

(***************************************************************************)
(* Results of a rule: IResult<&str, O>.  An error consumes nothing.        *)
(***************************************************************************)
Ok(rest, val) == [ok |-> TRUE, rest |-> rest, val |-> val]

Err == [ok |-> FALSE]

Drop(in, n) == SubSeq(in, n + 1, Len(in))

Take(in, n) == SubSeq(in, 1, n)

\* the first n characters as the value, the others as the remaining input
SplitAt(in, n) == Ok(Drop(in, n), Take(in, n))

\* the same, for the rules that need at least one character
SplitAt1(in, n) == IF n = 0 THEN Err ELSE SplitAt(in, n)

(***************************************************************************)
(* nom combinators.  A rule applied to an input is a result; a rule        *)
(* passed to a combinator is an operator from inputs to results.           *)
(***************************************************************************)
\* `let (input, v) = rule(input)?; K`: the rest of a function body after a
\* rule has been applied, K, sees the result r; an error is returned as is
Then(r, K(_)) == IF r.ok THEN K(r) ELSE Err

\* branch::alt over two rules applied to the same input
Alt(a, b) == IF a.ok THEN a ELSE b

\* combinator::opt: the value is <<v>> (Some) or <<>> (None) at `in`
Opt(r, in) == IF r.ok THEN Ok(r.rest, <<r.val>>) ELSE Ok(in, <<>>)

\* combinator::value
Value(v, r) == IF r.ok THEN Ok(r.rest, v) ELSE Err

\* combinator::recognize: the consumed slice of `in` as the value
Recognize(in, r) ==
    IF r.ok THEN Ok(r.rest, Take(in, Len(in) - Len(r.rest))) ELSE Err

\* the loop of multi::many0 (and of fold_many0 with a push): applies P until
\* it returns an error and returns what it collected; a P that succeeds
\* without consuming anything ("infinite loop check") stops the loop, which
\* then reports an error (the field `stuck`)
RECURSIVE Many0Loop(_, _)
Many0Loop(P(_), in) ==
    Alt(Then(P(in), LAMBDA r :
            IF Len(r.rest) = Len(in)
            THEN [ok |-> TRUE, rest |-> in, val |-> <<>>, stuck |-> TRUE]
            ELSE Then(Many0Loop(P, r.rest), LAMBDA m :
                     IF "stuck" \in DOMAIN m THEN m
                     ELSE Ok(m.rest, <<r.val>> \o m.val))),
        Ok(in, <<>>))

\* the error of the infinite loop check
Unstuck(m) == IF "stuck" \in DOMAIN m THEN Err ELSE m

\* multi::many0
Many0(P(_), in) == Unstuck(Many0Loop(P, in))

\* multi::many1: the first application must succeed (and is not checked
\* for consuming); then the loop of many0
Many1(P(_), in) ==
    Then(P(in), LAMBDA r :
    Then(Many0(P, r.rest), LAMBDA m : Ok(m.rest, <<r.val>> \o m.val)))

\* bytes::complete::tag
tag(t, in) ==
    IF Len(in) >= Len(t) /\ Take(in, Len(t)) = t
    THEN Ok(Drop(in, Len(t)), t)
    ELSE Err

\* character::complete::char
char(c, in) ==
    IF Len(in) >= 1 /\ in[1] = c THEN Ok(Drop(in, 1), c) ELSE Err

\* character::complete::none_of
none_of(cs, in) ==
    IF Len(in) >= 1 /\ in[1] \notin cs THEN Ok(Drop(in, 1), in[1]) ELSE Err

\* character::complete::newline
newline(in) == char("\n", in)

\* length of the leading run of multispace characters
RECURSIVE MultispaceRun(_)
MultispaceRun(in) ==
    IF in # <<>> /\ IsMultispace(in[1]) THEN 1 + MultispaceRun(Tail(in)) ELSE 0

\* character::complete::multispace0: always succeeds
multispace0(in) == SplitAt(in, MultispaceRun(in))

RECURSIVE SpaceRun(_)
SpaceRun(in) ==
    IF in # <<>> /\ IsSpace(in[1]) THEN 1 + SpaceRun(Tail(in)) ELSE 0

\* character::complete::space0: always succeeds
space0(in) == SplitAt(in, SpaceRun(in))

RECURSIVE AlphaRun(_)
AlphaRun(in) ==
    IF in # <<>> /\ IsAlpha(in[1]) THEN 1 + AlphaRun(Tail(in)) ELSE 0

\* character::complete::alpha1: one or more ASCII letters
alpha1(in) == SplitAt1(in, AlphaRun(in))

RECURSIVE AlphanumRun(_)
AlphanumRun(in) ==
    IF in # <<>> /\ IsAlphanum(in[1]) THEN 1 + AlphanumRun(Tail(in)) ELSE 0

\* character::complete::alphanumeric1: one or more ASCII letters or digits
alphanumeric1(in) == SplitAt1(in, AlphanumRun(in))

\* length of the leading run of characters other than those of cs
RECURSIVE NotInRun(_, _)
NotInRun(cs, in) ==
    IF in # <<>> /\ in[1] \notin cs THEN 1 + NotInRun(cs, Tail(in)) ELSE 0

\* bytes::complete::is_not: one or more characters that are not in cs
is_not(cs, in) == SplitAt1(in, NotInRun(cs, in))

\* the number of characters of `in` before the first occurrence of the
\* two-character pattern p, -1 if there is none
RECURSIVE FindPair(_, _)
FindPair(p, in) ==
    IF Len(in) < 2 THEN 0 - 1
    ELSE IF in[1] = p[1] /\ in[2] = p[2] THEN 0
    ELSE IF FindPair(p, Tail(in)) < 0 THEN 0 - 1
    ELSE 1 + FindPair(p, Tail(in))

\* bytes::complete::take_until: up to, not including, the first p
take_until(p, in) ==
    IF FindPair(p, in) < 0 THEN Err ELSE SplitAt(in, FindPair(p, in))

(***************************************************************************)
(* character::complete::i64: optional sign, then decimal digits folded     *)
(* with checked_mul / checked_add (checked_sub for a negative number).     *)
(***************************************************************************)
RECURSIVE DigitRun(_)
DigitRun(in) ==
    IF in # <<>> /\ IsDigit(in[1]) THEN 1 + DigitRun(Tail(in)) ELSE 0

RECURSIVE StripZeros(_)
StripZeros(ds) ==
    IF ds # <<>> /\ ds[1] = "0" THEN StripZeros(Tail(ds)) ELSE ds

\* ds > ms for two digit strings of the same length
RECURSIVE DigitsGreater(_, _)
DigitsGreater(ds, ms) ==
    IF ds = <<>> THEN FALSE
    ELSE IF DigitValue(ds[1]) # DigitValue(ms[1])
         THEN DigitValue(ds[1]) > DigitValue(ms[1])
         ELSE DigitsGreater(Tail(ds), Tail(ms))

\* i64::MAX = 9223372036854775807; the magnitude of i64::MIN ends in 8
I64MaxDigits(neg) ==
    <<"9","2","2","3","3","7","2","0","3","6","8","5","4","7","7","5","8","0",
      IF neg THEN "8" ELSE "7">>

\* a magnitude, without leading zeros, that leaves i64
MagnitudeOverflows(s, m) ==
    \/ Len(s) > Len(m)
    \/ Len(s) = Len(m) /\ DigitsGreater(s, m)

\* checked_mul / checked_add (checked_sub) return None: the number leaves i64
I64Overflows(neg, ds) == MagnitudeOverflows(StripZeros(ds), I64MaxDigits(neg))

RECURSIVE Horner(_, _)
Horner(acc, ds) ==
    IF ds = <<>> THEN acc ELSE Horner(acc * 10 + DigitValue(ds[1]), Tail(ds))

\* the digits ds of the number, after its sign
i64_fold(neg, i, ds) ==
    IF ds = <<>> \/ I64Overflows(neg, ds) THEN Err
    ELSE Ok(Drop(i, Len(ds)), IF neg THEN 0 - Horner(0, ds) ELSE Horner(0, ds))

\* the input i after the sign
i64_signed(neg, i) == i64_fold(neg, i, Take(i, DigitRun(i)))

i64(in) ==
    i64_signed(in # <<>> /\ in[1] = "-",
               IF in # <<>> /\ in[1] \in {"-", "+"} THEN Tail(in) ELSE in)

\* fn ws: terminated(inner, multispace0), over inner's result
ws(r) == Then(r, LAMBDA v : Then(multispace0(v.rest), LAMBDA m : Ok(m.rest, v.val)))

(***************************************************************************)
(* AST values (crate::ast, constructed in parser.rs).                      *)
(***************************************************************************)
PrimI64(n) == [t |-> "Prim", prim |-> [t |-> "I64", int |-> n]]

PrimBool(b) == [t |-> "Prim", prim |-> [t |-> "Bool", bool |-> b]]

PrimString(s) == [t |-> "Prim", prim |-> [t |-> "String", str |-> s]]

ExprName(s) == [t |-> "Name", id |-> s]

ExprCall(f, args) == [t |-> "Call", func_name |-> f, args |-> args]

InstrExpr(e) == [t |-> "Expr", expr |-> e]

InstrBind(id, ty, e) == [t |-> "Bind", id |-> id, ty |-> ty, expr |-> e]

InstrMutBind(id, ty, e) == [t |-> "MutBind", id |-> id, ty |-> ty, expr |-> e]

InstrAssign(n, e) == [t |-> "Assign", target |-> n, expr |-> e]

InstrBranch(paths) == [t |-> "Branch", paths |-> paths]

InstrLoop(body) == [t |-> "Loop", body |-> body]

InstrKeyword(w) == [t |-> "Keyword", word |-> w]

MkKind(params, ret) == [params |-> params, ret |-> ret]

DeclFunc(k, body) == [t |-> "Func", kind |-> k, body |-> body]

(***************************************************************************)
(* Literal texts of the grammar.                                           *)
(***************************************************************************)
kw_let == <<"l","e","t">>

kw_end == <<"e","n","d">>

kw_true == <<"t","r","u","e">>

kw_false == <<"f","a","l","s","e">>

kw_if == <<"i","f">>

kw_then == <<"t","h","e","n">>

kw_else == <<"e","l","s","e">>

kw_loop == <<"l","o","o","p">>

kw_break == <<"b","r","e","a","k">>

kw_elsif == <<"e","l","s","i","f">>

kw_mut == <<"m","u","t">>

tok_arrow == <<"-",">">>

tok_ellipsis == <<".",".",".">>

\* the words the verify closure of `name` rejects
Reserved ==
    {kw_let, kw_end, kw_true, kw_false, kw_if, kw_then, kw_else, kw_loop, kw_break}

(***************************************************************************)
(* The rules of parser.rs.                                                 *)
(***************************************************************************)
\* name, with true and false missing from the reserved words
name_BoolsNotReserved(in) ==
    Then(Recognize(in,
             Then(Alt(alpha1(in), tag(<<"_">>, in)), LAMBDA h :
                  Many0(LAMBDA i : Alt(alphanumeric1(i), tag(<<"_">>, i)), h.rest))),
         LAMBDA s : IF s.val \notin Reserved \ {kw_true, kw_false} THEN s ELSE Err)

\* name, rejecting the words of the header comment's keyword list as well
name_DocumentedKeywords(in) ==
    Then(Recognize(in,
             Then(Alt(alpha1(in), tag(<<"_">>, in)), LAMBDA h :
                  Many0(LAMBDA i : Alt(alphanumeric1(i), tag(<<"_">>, i)), h.rest))),
         LAMBDA s : IF s.val \notin Reserved \cup {<<"e","l","i","f">>, <<"d","o">>,
                                                   <<"t","y","p","e">>, <<"n","o","t">>}
                    THEN s ELSE Err)

name(in) ==
    Then(Recognize(in,
             Then(Alt(alpha1(in), tag(<<"_">>, in)), LAMBDA h :
                  Many0(LAMBDA i : Alt(alphanumeric1(i), tag(<<"_">>, i)), h.rest))),
         LAMBDA s : IF s.val \notin Reserved THEN s ELSE Err)

string(in) ==
    Then(char("\"", in), LAMBDA q1 :
    Then(Many0(LAMBDA i : none_of({"\""}, i), q1.rest), LAMBDA body :
    Then(char("\"", body.rest), LAMBDA q2 :
    Ok(q2.rest, PrimString(body.val)))))

prim(in) ==
    Alt(Then(Alt(Value(TRUE, tag(kw_true, in)), Value(FALSE, tag(kw_false, in))),
             LAMBDA b : Ok(b.rest, PrimBool(b.val))),
        Then(i64(in), LAMBDA n : Ok(n.rest, PrimI64(n.val))))

\* impl From<&str> for Expr, over the result of a rule
into_name(r) == Then(r, LAMBDA n : Ok(n.rest, ExprName(n.val)))

RECURSIVE expr(_)
RECURSIVE call(_)

expr(in) ==
    Then(Alt(Then(ws(char("(", in)), LAMBDA o :
             Then(Alt(ws(prim(o.rest)),
                  Alt(into_name(ws(name(o.rest))),
                  Alt(ws(call(o.rest)),
                      ws(string(o.rest))))), LAMBDA e :
             Then(char(")", e.rest), LAMBDA c :
             Ok(c.rest, e.val)))),
             Alt(prim(in),
             Alt(into_name(name(in)),
             Alt(call(in),
                 string(in))))), LAMBDA e :
    Then(space0(e.rest), LAMBDA s :
    Ok(s.rest, e.val)))

\* call, skipping whitespace after the sigil
call_SigilThenSpace(in) ==
    Then(ws(char("@", in)), LAMBDA at :
    Then(name(at.rest), LAMBDA f :
    Then(space0(f.rest), LAMBDA s :
    Then(Many0(LAMBDA i : Then(expr(i), LAMBDA e :
                          Then(space0(e.rest), LAMBDA t : Ok(t.rest, e.val))),
               s.rest), LAMBDA args :
    Ok(args.rest, ExprCall(f.val, args.val))))))

call(in) ==
    Then(char("@", in), LAMBDA at :
    Then(name(at.rest), LAMBDA f :
    Then(space0(f.rest), LAMBDA s :
    Then(Many0(LAMBDA i : Then(expr(i), LAMBDA e :
                                  Then(space0(e.rest), LAMBDA t : Ok(t.rest, e.val))),
                       s.rest), LAMBDA args :
    Ok(args.rest, ExprCall(f.val, args.val))))))

name_typed(in) ==
    Then(Opt(ws(char("(", in)), in), LAMBDA o :
    Then(ws(name(o.rest)), LAMBDA n :
    Then(ws(char(":", n.rest)), LAMBDA c :
    Then(name(c.rest), LAMBDA ty :
    Then(Opt(ws(char(")", ty.rest)), ty.rest), LAMBDA p :
    Ok(p.rest, <<n.val, ty.val>>))))))

\* binder, accepting `~` only
binder_TildeOnly(in) == ws(tag(<<"~">>, in))

\* alt((ws(tag("~")), ws(tag("=")))) of func, bind and assign
binder(in) == Alt(ws(tag(<<"~">>, in)), ws(tag(<<"=">>, in)))

kind(in) ==
    Then(ws(char(":", in)), LAMBDA c :
    Then(Many0(LAMBDA i : Then(ws(name_typed(i)), LAMBDA p :
                                  Then(ws(tag(tok_arrow, p.rest)), LAMBDA a :
                                  Ok(a.rest, p.val))),
                       c.rest), LAMBDA params :
    Then(ws(name(params.rest)), LAMBDA ret :
    Ok(ret.rest, MkKind(params.val, ret.val)))))

keyword(in) ==
    Alt(Value("Break", tag(kw_break, in)),
        Value("Ellipsis", tag(tok_ellipsis, in)))

bind(in) ==
    Then(ws(tag(kw_let, in)), LAMBDA l :
    Then(Opt(ws(tag(kw_mut, l.rest)), l.rest), LAMBDA mutspec :
    Then(ws(name_typed(mutspec.rest)), LAMBDA nt :
    Then(binder(nt.rest), LAMBDA b :
    Then(expr(b.rest), LAMBDA e :
    Then(newline(e.rest), LAMBDA nl :
    Ok(nl.rest, IF mutspec.val # <<>>
                THEN InstrMutBind(nt.val[1], nt.val[2], e.val)
                ELSE InstrBind(nt.val[1], nt.val[2], e.val))))))))

\* assign, accepting `let` and a type before the binder
assign_AfterLet(in) ==
    Then(Opt(ws(tag(kw_let, in)), in), LAMBDA l :
    Then(Alt(Then(ws(name_typed(l.rest)), LAMBDA nt : Ok(nt.rest, nt.val[1])),
             ws(name(l.rest))), LAMBDA n :
    Then(binder(n.rest), LAMBDA b :
    Then(expr(b.rest), LAMBDA e :
    Then(newline(e.rest), LAMBDA nl :
    Ok(nl.rest, InstrAssign(n.val, e.val)))))))

assign(in) ==
    Then(ws(name(in)), LAMBDA n :
    Then(binder(n.rest), LAMBDA b :
    Then(expr(b.rest), LAMBDA e :
    Then(newline(e.rest), LAMBDA nl :
    Ok(nl.rest, InstrAssign(n.val, e.val))))))

RECURSIVE instr(_)
RECURSIVE branch(_)
RECURSIVE loop_(_)

\* many1(ws(instr)) of func, branch and loop_
many1_ws_instr(in) == Many1(LAMBDA i : ws(instr(i)), in)

\* pair(preceded(ws(tag(kw)), ws(expr)),
\*      preceded(ws(tag("then")), many1(ws(instr)))) of branch
branch_path(kw, in) ==
    Then(ws(tag(kw, in)), LAMBDA k :
    Then(ws(expr(k.rest)), LAMBDA c :
    Then(ws(tag(kw_then, c.rest)), LAMBDA th :
    Then(many1_ws_instr(th.rest), LAMBDA b :
    Ok(b.rest, <<c.val, b.val>>)))))

\* branch, putting the else clause under the condition of the first clause
branch_ElseUnderFirstCondition(in) ==
    Then(branch_path(kw_if, in), LAMBDA head :
    Then(Many0(LAMBDA i : branch_path(kw_elsif, i), head.rest),
         LAMBDA middle :
    Then(Opt(Then(ws(tag(kw_else, middle.rest)), LAMBDA k : many1_ws_instr(k.rest)),
             middle.rest), LAMBDA last :
    Then(ws(tag(kw_end, last.rest)), LAMBDA e :
    Ok(e.rest,
       [paths |-> <<head.val>> \o middle.val \o
                  (IF last.val # <<>> THEN <<<<head.val[1], last.val[1]>>>>
                                      ELSE <<>>)])))))

branch(in) ==
    Then(branch_path(kw_if, in), LAMBDA head :
    Then(Many0(LAMBDA i : branch_path(kw_elsif, i), head.rest),
         LAMBDA middle :
    Then(Opt(Then(ws(tag(kw_else, middle.rest)), LAMBDA k : many1_ws_instr(k.rest)),
             middle.rest), LAMBDA last :
    Then(ws(tag(kw_end, last.rest)), LAMBDA e :
    Ok(e.rest,
       [paths |-> <<head.val>> \o middle.val \o
                  (IF last.val # <<>> THEN <<<<PrimBool(TRUE), last.val[1]>>>>
                                      ELSE <<>>)])))))

loop_(in) ==
    Then(ws(tag(kw_loop, in)), LAMBDA l :
    Then(many1_ws_instr(l.rest), LAMBDA b :
    Then(ws(tag(kw_end, b.rest)), LAMBDA e :
    Ok(e.rest, [body |-> b.val]))))

instr(in) ==
    Alt(Then(expr(in), LAMBDA e :
        Then(newline(e.rest), LAMBDA nl : Ok(nl.rest, InstrExpr(e.val)))),
    Alt(ws(assign(in)),
    Alt(ws(bind(in)),
    Alt(Then(ws(branch(in)), LAMBDA b : Ok(b.rest, InstrBranch(b.val.paths))),
    Alt(Then(ws(loop_(in)), LAMBDA l : Ok(l.rest, InstrLoop(l.val.body))),
        Then(keyword(in), LAMBDA k :
        Then(newline(k.rest), LAMBDA nl : Ok(nl.rest, InstrKeyword(k.val)))))))))

\* func, skipping whitespace before `let` as well
func_LeadingSkipped(in) ==
    Then(ws(tag(kw_let, multispace0(in).rest)), LAMBDA l :
    Then(ws(name(l.rest)), LAMBDA n :
    Then(ws(kind(n.rest)), LAMBDA k :
    Then(binder(k.rest), LAMBDA b :
    Then(many1_ws_instr(b.rest), LAMBDA body :
    Then(ws(tag(kw_end, body.rest)), LAMBDA e :
    Ok(e.rest, <<n.val, DeclFunc(k.val, body.val)>>)))))))

func(in) ==
    Then(ws(tag(kw_let, in)), LAMBDA l :
    Then(ws(name(l.rest)), LAMBDA n :
    Then(ws(kind(n.rest)), LAMBDA k :
    Then(binder(k.rest), LAMBDA b :
    Then(many1_ws_instr(b.rest), LAMBDA body :
    Then(ws(tag(kw_end, body.rest)), LAMBDA e :
    Ok(e.rest, <<n.val, DeclFunc(k.val, body.val)>>)))))))

\* decls.into_iter().collect(): the pairs in source order into a map, a
\* later pair replacing an earlier one with the same name
collect(decls) ==
    [n \in {decls[i][1] : i \in DOMAIN decls} |->
        decls[CHOOSE i \in DOMAIN decls :
                 /\ decls[i][1] = n
                 /\ \A j \in DOMAIN decls : decls[j][1] = n => j <= i][2]]

ast(in) ==
    Then(Many1(LAMBDA i : func(i), in), LAMBDA decls :
    Ok(decls.rest, [decls |-> collect(decls.val)]))

eol_comment(in) ==
    Then(tag(<<"/","/">>, in), LAMBDA t :
    Then(is_not({"\n", "\r"}, t.rest), LAMBDA c :
    Ok(c.rest, <<>>)))

inline_comment(in) ==
    Then(tag(<<"/","*">>, in), LAMBDA o :
    Then(take_until(<<"*","/">>, o.rest), LAMBDA body :
    Then(tag(<<"*","/">>, body.rest), LAMBDA c :
    Ok(c.rest, <<>>))))

whitespace(in) ==
    Value(<<>>, Many0(LAMBDA i : Alt(eol_comment(i),
                                             Value(<<>>, multispace0(i))),
                              in))

(***************************************************************************)
(* Source texts.  A text is a sequence of tokens, each a pair of the       *)
(* token's characters and the whitespace that follows it; the input of a   *)
(* rule is the concatenation.  The texts are drawn from families that are  *)
(* described by a record `src`, so that a property can speak of the        *)
(* clauses a text was written with.                                        *)
(***************************************************************************)
MaxSuffix == 1

MaxArgs == 2

MaxDecls == 2

MaxElsif == 2

MaxLead == 2

Tok(text, sep) == <<text, sep>>

RECURSIVE Flatten(_)
Flatten(toks) ==
    IF toks = <<>> THEN <<>> ELSE toks[1][1] \o toks[1][2] \o Flatten(Tail(toks))

SP == <<" ">>

NL == <<"\n">>

NLSP == <<"\n", " ">>

\* all sequences over the set S of length at most n
SeqsUpTo(S, n) == UNION {[1..k -> S] : k \in 0..n}

\* expressions, with the tree each denotes
ExprPool ==
    << [toks |-> <<Tok(<<"1">>, <<>>)>>,                 ast |-> PrimI64(1)],
       [toks |-> <<Tok(<<"-","2">>, <<>>)>>,             ast |-> PrimI64(0 - 2)],
       [toks |-> <<Tok(<<"x">>, <<>>)>>,                 ast |-> ExprName(<<"x">>)],
       [toks |-> <<Tok(kw_true, <<>>)>>,                 ast |-> PrimBool(TRUE)],
       [toks |-> <<Tok(<<"\"","s"," ","=","\"">>, <<>>)>>,
                                 ast |-> PrimString(<<"s"," ","=">>)],
       [toks |-> <<Tok(<<"(">>, SP), Tok(<<"y","_","1">>, SP), Tok(<<")">>, <<>>)>>,
                                 ast |-> ExprName(<<"y","_","1">>)] >>

\* statements, with the tree each denotes
StmtPool ==
    << [toks |-> <<Tok(<<"0">>, NLSP)>>,
        ast  |-> InstrExpr(PrimI64(0))],
       [toks |-> <<Tok(<<"@","d","u","m","p">>, SP), Tok(<<"1">>, NLSP)>>,
        ast  |-> InstrExpr(ExprCall(<<"d","u","m","p">>, <<PrimI64(1)>>))],
       [toks |-> <<Tok(kw_let, SP), Tok(<<"n">>, <<>>), Tok(<<":">>, SP),
                   Tok(<<"I","8">>, SP), Tok(<<"=">>, SP), Tok(<<"4","2">>, NLSP)>>,
        ast  |-> InstrBind(<<"n">>, <<"I","8">>, PrimI64(42))],
       [toks |-> <<Tok(kw_break, NLSP)>>,
        ast  |-> InstrKeyword("Break")] >>

\* words given to the identifier rule and to the rules that use it
Words ==
    Reserved \cup
    { kw_elsif, <<"e","l","i","f">>, <<"d","o">>, kw_mut, <<"t","y","p","e">>,
      <<"n","o","t">>, <<"l","e","t","x">>, <<"t","r","u","e","x">>,
      <<"f","a","l","s","e","y">>, <<"e","n","d","_">>, <<"i","f","0">>,
      <<"b","r","e","a","k","s">>, <<"_">>, <<"_","x","1">>, <<"T","r","u","e">>,
      <<"x">>, <<"t","r","u">>, <<"l","e">>, <<"1","x">>, <<>> }

SuffixChars == {" ", "\n", ":", "_", "e", "7", "@"}

digits == <<"1","2","3","4","5","6","7","8","9">>

\* the name of the i-th declaration of a program text
DeclName(i) == <<"f", digits[i]>>

(***************************************************************************)
(* The families.                                                           *)
(***************************************************************************)
\* a word followed by a few characters
WordSrcs ==
    {[fam |-> "word", word |-> w, suffix |-> s] :
        w \in Words, s \in SeqsUpTo(SuffixChars, MaxSuffix)}

\* a call: sigil, gap, callee, arguments separated by one space, line break
CallSrcs ==
    {[fam |-> "call", sigil |-> sg, gap |-> g, args |-> a] :
        sg \in {<<"@">>, <<>>}, g \in {<<>>, SP},
        a \in SeqsUpTo(1..Len(ExprPool), MaxArgs)}

\* a bind, a mutable bind, an assignment or a one-statement function; glued,
\* `let` is written without a space before the word that follows it (before
\* the target of an assignment, which otherwise has no `let`)
StmtSrcs ==
    {[fam |-> "stmt", form |-> f, id |-> i, ty |-> ty, binder |-> b, e |-> e,
      glued |-> g] :
        f \in {"bind", "mutbind", "assign", "func"},
        i \in {<<"n">>, kw_true, kw_false, kw_mut, <<"t","r","u","e","x">>,
               <<"m","u","t","x">>},
        ty \in {<<"I","8">>, kw_false},
        b \in {"~", "="},
        e \in 1..Len(ExprPool),
        g \in BOOLEAN}

\* a program: declarations, each with a binder, a one-statement body and,
\* unless it is malformed, its closing end
ProgSrcs ==
    {[fam |-> "prog", decls |-> d] :
        d \in UNION {[1..k -> [binder : {"~", "="}, body : 1..3, hasEnd : BOOLEAN]] :
                        k \in 1..MaxDecls}}

\* an if chain: the keyword of the middle clauses, the number of middle
\* clauses, the body of every clause, the else clause, the enclosing function
BranchSrcs ==
    {[fam |-> "branch", kw |-> kw, bodies |-> bs, hasElse |-> el,
      lastCond |-> lc, wrapped |-> wr] :
        kw \in {kw_elsif, <<"e","l","i","f">>},
        bs \in UNION {[1..k -> {2, 4}] : k \in 1..(MaxElsif + 1)},
        el \in BOOLEAN, lc \in {3, 4}, wr \in BOOLEAN}

\* whitespace and line comments, then some text
WsSrcs ==
    {[fam |-> "ws", lead |-> l, rest |-> r] :
        l \in SeqsUpTo({SP, NL, <<"\t">>, <<"/","/","c","\n">>, <<"/","*","c","*","/">>},
                       MaxLead),
        r \in {<<>>, <<"x">>, kw_let}}

\* the characters multispace0 skips
PadChars == {" ", "\t", "\n", "\r"}

\* what follows the final `end` of a padded declaration
Trails == {<<>>, SP, NL, <<"\n", " ", "\t">>, <<"\r", "\n">>}

\* a well-formed declaration with whitespace before `let` and after `end`
PadSrcs ==
    {[fam |-> "pad", lead |-> l, trail |-> t, body |-> b] :
        l \in SeqsUpTo(PadChars, MaxLead), t \in Trails, b \in 1..3}

(***************************************************************************)
(* The tokens of a source text.                                            *)
(***************************************************************************)
RECURSIVE ArgToks(_)
ArgToks(args) ==
    IF args = <<>> THEN <<>>
    ELSE LET ts == ExprPool[args[1]].toks
         IN  SubSeq(ts, 1, Len(ts) - 1) \o <<Tok(ts[Len(ts)][1], SP)>>
             \o ArgToks(Tail(args))

\* the tokens of an expression followed by a line break
ExprLine(e, sep) ==
    LET ts == ExprPool[e].toks
    IN  SubSeq(ts, 1, Len(ts) - 1) \o <<Tok(ts[Len(ts)][1], sep)>>

DeclToks(i, d) ==
    <<Tok(kw_let, SP), Tok(DeclName(i), <<>>), Tok(<<":">>, SP), Tok(<<"T">>, SP),
      Tok(<<d.binder>>, NLSP)>>
    \o StmtPool[d.body].toks
    \o (IF d.hasEnd THEN <<Tok(kw_end, NL)>> ELSE <<>>)

RECURSIVE DeclsToks(_, _)
DeclsToks(ds, i) ==
    IF i > Len(ds) THEN <<>> ELSE DeclToks(i, ds[i]) \o DeclsToks(ds, i + 1)

\* the condition of the i-th clause of an if chain with k conditions
CondOf(s, i) == IF i = Len(s.bodies) THEN s.lastCond ELSE 3

RECURSIVE MiddleToks(_, _)
MiddleToks(s, i) ==
    IF i > Len(s.bodies) THEN <<>>
    ELSE <<Tok(s.kw, SP)>> \o ExprLine(CondOf(s, i), SP) \o <<Tok(kw_then, NLSP)>>
         \o StmtPool[s.bodies[i]].toks \o MiddleToks(s, i + 1)

BranchToks(s) ==
    (IF s.wrapped
     THEN <<Tok(kw_let, SP), Tok(<<"m","a","i","n">>, <<>>), Tok(<<":">>, SP),
            Tok(<<"V","o","i","d">>, SP), Tok(<<"~">>, NLSP)>>
     ELSE <<>>)
    \o <<Tok(kw_if, SP)>> \o ExprLine(CondOf(s, 1), SP) \o <<Tok(kw_then, NLSP)>>
    \o StmtPool[s.bodies[1]].toks
    \o MiddleToks(s, 2)
    \o (IF s.hasElse
        THEN <<Tok(kw_else, NLSP)>> \o StmtPool[1].toks \o StmtPool[2].toks
        ELSE <<>>)
    \o <<Tok(kw_end, NLSP)>>
    \o (IF s.wrapped THEN <<Tok(kw_end, <<>>)>> ELSE <<>>)

\* `let` and what separates it from the next word
LetTok(s) == Tok(kw_let, IF s.glued THEN <<>> ELSE SP)

StmtToks(s) ==
    CASE s.form = "assign" ->
           (IF s.glued THEN <<LetTok(s)>> ELSE <<>>)
           \o <<Tok(s.id, SP), Tok(<<s.binder>>, SP)>> \o ExprLine(s.e, NL)
      [] s.form = "bind" ->
           <<LetTok(s), Tok(s.id, <<>>), Tok(<<":">>, SP), Tok(s.ty, SP),
             Tok(<<s.binder>>, SP)>> \o ExprLine(s.e, NL)
      [] s.form = "mutbind" ->
           <<LetTok(s), Tok(kw_mut, SP), Tok(s.id, <<>>), Tok(<<":">>, SP),
             Tok(s.ty, SP), Tok(<<s.binder>>, SP)>> \o ExprLine(s.e, NL)
      [] s.form = "func" ->
           <<LetTok(s), Tok(s.id, <<>>), Tok(<<":">>, SP), Tok(s.ty, SP),
             Tok(<<s.binder>>, NLSP)>> \o ExprLine(s.e, NLSP) \o <<Tok(kw_end, <<>>)>>

PadToks(s) ==
    <<Tok(<<>>, s.lead), Tok(kw_let, SP), Tok(DeclName(1), <<>>), Tok(<<":">>, SP),
      Tok(<<"T">>, SP), Tok(<<"=">>, NLSP)>>
    \o StmtPool[s.body].toks
    \o <<Tok(kw_end, s.trail)>>

RECURSIVE LeadToks(_)
LeadToks(l) ==
    IF l = <<>> THEN <<>> ELSE <<Tok(<<>>, l[1])>> \o LeadToks(Tail(l))

Tokens(s) ==
    CASE s.fam = "word"   -> <<Tok(s.word, s.suffix)>>
      [] s.fam = "call"   -> <<Tok(s.sigil, s.gap), Tok(<<"d","u","m","p">>, SP)>>
                             \o ArgToks(s.args) \o <<Tok(<<>>, NL)>>
      [] s.fam = "stmt"   -> StmtToks(s)
      [] s.fam = "prog"   -> DeclsToks(s.decls, 1)
      [] s.fam = "branch" -> BranchToks(s)
      [] s.fam = "ws"     -> LeadToks(s.lead) \o <<Tok(s.rest, <<>>)>>
      [] s.fam = "pad"    -> PadToks(s)

Render(s) == Flatten(Tokens(s))

(***************************************************************************)
(* The state machine: a text is chosen, then one rule is applied to it.    *)
(***************************************************************************)
NoOut == [ok |-> FALSE, none |-> TRUE]

Start(S) == \E s \in S : src = s /\ input = Render(s) /\ rule = "none" /\ out = NoOut

Init ==
    \/ Start(WordSrcs)
    \/ Start(CallSrcs)
    \/ Start(StmtSrcs)
    \/ Start(ProgSrcs)
    \/ Start(BranchSrcs)
    \/ Start(WsSrcs)
    \/ Start(PadSrcs)

Apply(r, fams, result) ==
    /\ rule = "none"
    /\ src.fam \in fams
    /\ rule' = r
    /\ out' = result
    /\ UNCHANGED <<src, input>>

ParseAst == Apply("ast", {"prog", "branch", "stmt", "pad"}, ast(input))

ParseFunc == Apply("func", {"prog", "stmt", "branch", "pad"}, func(input))

ParseInstr == Apply("instr", {"stmt", "call", "branch", "word"}, instr(input))

ParseExpr == Apply("expr", {"word", "call"}, expr(input))

ParsePrim == Apply("prim", {"word"}, prim(input))

ParseName == Apply("name", {"word", "call"}, name(input))

ParseCall == Apply("call", {"call", "word"}, call(input))

ParseBind == Apply("bind", {"stmt"}, bind(input))

ParseAssign == Apply("assign", {"stmt", "word"}, assign(input))

ParseBranch == Apply("branch", {"branch"}, branch(input))

ParseWhitespace == Apply("whitespace", {"ws", "word"}, whitespace(input))

ParseEolComment == Apply("eol_comment", {"ws"}, eol_comment(input))

ParseInlineComment == Apply("inline_comment", {"ws"}, inline_comment(input))

Next ==
    \/ ParseAst
    \/ ParseFunc
    \/ ParseInstr
    \/ ParseExpr
    \/ ParsePrim
    \/ ParseName
    \/ ParseCall
    \/ ParseBind
    \/ ParseAssign
    \/ ParseBranch
    \/ ParseWhitespace
    \/ ParseEolComment
    \/ ParseInlineComment

Spec == Init /\ [][Next]_vars


(***************************************************************************)
(* What the properties below are stated with.                              *)
(***************************************************************************)
\* a rule, by its name, applied to a text
Parse(r, in) ==
    CASE r = "ast"    -> ast(in)
      [] r = "func"   -> func(in)
      [] r = "instr"  -> instr(in)
      [] r = "expr"   -> expr(in)
      [] r = "prim"   -> prim(in)
      [] r = "name"   -> name(in)
      [] r = "call"   -> call(in)
      [] r = "bind"   -> bind(in)
      [] r = "assign" -> assign(in)
      [] r = "branch" -> branch(in)
      [] r = "whitespace" -> whitespace(in)
      [] r = "eol_comment" -> eol_comment(in)
      [] r = "inline_comment" -> inline_comment(in)

Applied(r) == rule = r

\* a program text all of whose declarations are closed by `end`
WellFormedProg ==
    src.fam = "prog" /\ \A i \in DOMAIN src.decls : src.decls[i].hasEnd

\* the trees of the pool entries es, in order
RECURSIVE ExprAsts(_)
ExprAsts(es) ==
    IF es = <<>> THEN <<>> ELSE <<ExprPool[es[1]].ast>> \o ExprAsts(Tail(es))

\* the (condition, body) pairs an if chain denotes, clause i onwards
RECURSIVE PathsFrom(_, _)
PathsFrom(s, i) ==
    IF i > Len(s.bodies)
    THEN IF s.hasElse
         THEN << <<PrimBool(TRUE), <<StmtPool[1].ast, StmtPool[2].ast>>>> >>
         ELSE <<>>
    ELSE << <<ExprPool[CondOf(s, i)].ast, <<StmtPool[s.bodies[i]].ast>>>> >>
         \o PathsFrom(s, i + 1)

(***************************************************************************)
(* C1: an input of function declarations of which at least one lacks its   *)
(* closing `end` makes `ast` fail.                                         *)
(***************************************************************************)
C1_MissingEndFails ==
    ( /\ src.fam = "prog"
      /\ Applied("ast")
      /\ \E i \in DOMAIN src.decls : ~src.decls[i].hasEnd )
    => ~out.ok

(***************************************************************************)
(* C2: whenever `ast` succeeds, the remaining input is empty.              *)
(***************************************************************************)
C2_SuccessLeavesNothing ==
    (Applied("ast") /\ out.ok) => out.rest = <<>>

(***************************************************************************)
(* C3: a function whose body is an if / elif / else chain is parsed by     *)
(* `ast`, with nothing remaining, into one Branch statement whose paths    *)
(* are the clauses in source order, the else clause under the condition    *)
(* true.                                                                   *)
(***************************************************************************)
IsElifChain ==
    /\ src.fam = "branch"
    /\ src.kw = <<"e","l","i","f">>
    /\ Len(src.bodies) >= 2
    /\ src.hasElse
    /\ src.wrapped

C3_ElifChainParses ==
    (IsElifChain /\ Applied("ast"))
    => /\ out.ok
       /\ out.rest = <<>>
       /\ DOMAIN out.val.decls = {<<"m","a","i","n">>}
       /\ out.val.decls[<<"m","a","i","n">>].body = <<InstrBranch(PathsFrom(src, 1))>>

(***************************************************************************)
(* C4: `whitespace` succeeds on every input and returns the input without  *)
(* its leading whitespace characters and `//` line comments.               *)
(***************************************************************************)
\* the input without its leading whitespace characters and line comments
RECURSIVE StripLeading(_)
StripLeading(in) ==
    IF in # <<>> /\ IsMultispace(in[1]) THEN StripLeading(Tail(in))
    ELSE IF Len(in) >= 2 /\ in[1] = "/" /\ in[2] = "/"
         THEN StripLeading(Drop(in, 2 + NotInRun({"\n", "\r"}, Drop(in, 2))))
         ELSE in

C4_WhitespaceSkips ==
    Applied("whitespace") => (out.ok /\ out.rest = StripLeading(input))

(***************************************************************************)
(* C5: in a well-formed program there is a place between two tokens where  *)
(* a line comment or a block comment can be inserted and `ast` still       *)
(* returns the same Program.                                               *)
(***************************************************************************)
Comments == { <<"/","/"," ","c","\n">>, <<"/","*"," ","c"," ","*","/">> }

\* the tokens with the comment c, and a space, put after the i-th token
InsertAfter(toks, i, c) ==
    SubSeq(toks, 1, i) \o <<Tok(c, SP)>> \o SubSeq(toks, i + 1, Len(toks))

CommentAccepted(toks, i, c) ==
    ast(Flatten(InsertAfter(toks, i, c))) = out

C5_CommentAcceptedSomewhere ==
    (WellFormedProg /\ Applied("ast") /\ out.ok /\ out.rest = <<>>)
    => \E i \in 1..(Len(Tokens(src)) - 1), c \in Comments :
           CommentAccepted(Tokens(src), i, c)


(***************************************************************************)
(* C6: `true` and `false` are never produced as identifiers: prim and expr *)
(* turn them into boolean primitives, and name rejects them, hence also    *)
(* the rules that take an assign target, a bind name, a function name or   *)
(* a type name from it.                                                    *)
(***************************************************************************)
BoolWords == {kw_true, kw_false}

\* the identifier that follows the word in the text, if the text goes on
IsIdentChar(c) == IsAlphanum(c) \/ c = "_"

\* the word true or false standing alone (not the start of a longer word)
BoolWordAlone ==
    /\ src.fam = "word"
    /\ src.word \in BoolWords
    /\ (src.suffix = <<>> \/ ~IsIdentChar(src.suffix[1]))

C6_BoolsAreNotIdentifiers ==
    /\ (Applied("name") /\ out.ok) => out.val \notin BoolWords
    /\ (Applied("expr") /\ out.ok /\ out.val.t = "Name") => out.val.id \notin BoolWords
    /\ (Applied("assign") /\ out.ok) => out.val.target \notin BoolWords
    /\ (Applied("bind") /\ out.ok) =>
           (out.val.id \notin BoolWords /\ out.val.ty \notin BoolWords)
    /\ (Applied("func") /\ out.ok) =>
           (out.val[1] \notin BoolWords /\ out.val[2].kind.ret \notin BoolWords)
    /\ (BoolWordAlone /\ Applied("name")) => ~out.ok
    /\ (BoolWordAlone /\ (Applied("prim") \/ Applied("expr"))) =>
           (out.ok /\ out.val = PrimBool(src.word = kw_true))

C6_Witness ==
    /\ BoolWordAlone
    /\ src.word = kw_false
    /\ Applied("expr")
    /\ out.ok
    /\ out.val = PrimBool(FALSE)

(***************************************************************************)
(* C7: a successfully parsed Branch whose source has an else clause ends   *)
(* with the pair (true, else statements), whatever the number of elsif     *)
(* clauses before it; without an else clause there is no such extra pair.  *)
(***************************************************************************)
\* the paths of the Branch the applied rule has produced from an if chain
BranchParsed ==
    /\ src.fam = "branch"
    /\ out.ok
    /\ \/ Applied("branch") /\ ~src.wrapped
       \/ Applied("instr") /\ ~src.wrapped
       \/ Applied("func") /\ src.wrapped
       \/ Applied("ast") /\ src.wrapped

PathsParsed ==
    CASE Applied("branch") -> out.val.paths
      [] Applied("instr")  -> out.val.paths
      [] Applied("func")   -> out.val[2].body[1].paths
      [] Applied("ast")    -> out.val.decls[<<"m","a","i","n">>].body[1].paths

ElseBody == <<StmtPool[1].ast, StmtPool[2].ast>>

C7_ElseIsFinalTruePair ==
    BranchParsed =>
       /\ Len(PathsParsed) = Len(src.bodies) + (IF src.hasElse THEN 1 ELSE 0)
       /\ src.hasElse => PathsParsed[Len(PathsParsed)] = <<PrimBool(TRUE), ElseBody>>
       /\ \A i \in 1..Len(src.bodies) :
              PathsParsed[i] = <<ExprPool[CondOf(src, i)].ast, <<StmtPool[src.bodies[i]].ast>>>>

C7_Witness ==
    /\ BranchParsed
    /\ Applied("branch")
    /\ src.hasElse
    /\ Len(src.bodies) >= 3
    /\ Len(PathsParsed) = Len(src.bodies) + 1
    /\ PathsParsed[Len(PathsParsed)][1] = PrimBool(TRUE)

(***************************************************************************)
(* C8: replacing a binder `~` by `=` or `=` by `~` in a function           *)
(* declaration, a bind, a mutable bind or an assignment does not change    *)
(* the outcome: success or failure, the tree, the remaining input.         *)
(***************************************************************************)
IsBinderTok(tk) == tk[1] \in {<<"~">>, <<"=">>}

BinderPositions(toks) == {i \in DOMAIN toks : IsBinderTok(toks[i])}

\* the tokens with the binder at place i replaced by the other binder
SwapAt(toks, i) ==
    [toks EXCEPT ![i] = Tok(IF toks[i][1] = <<"~">> THEN <<"=">> ELSE <<"~">>,
                            toks[i][2])]

\* the binder token at place i lies in the part of the text the rule consumed
Consumed(toks, i) ==
    Len(Flatten(SubSeq(toks, 1, i))) <= Len(input) - Len(out.rest)

SameOutcome(toks, i, r) ==
    /\ r.ok = out.ok
    /\ out.ok => /\ r.val = out.val
                 /\ Len(r.rest) = Len(out.rest)
                 /\ Consumed(toks, i) => r.rest = out.rest

BinderRules == {"func", "bind", "assign", "instr", "ast"}

C8_BindersInterchangeable ==
    (src.fam \in {"stmt", "prog"} /\ rule \in BinderRules)
    => \A i \in BinderPositions(Tokens(src)) :
           SameOutcome(Tokens(src), i, Parse(rule, Flatten(SwapAt(Tokens(src), i))))

C8_Witness ==
    /\ src.fam = "stmt"
    /\ src.form = "mutbind"
    /\ src.binder = "="
    /\ Applied("bind")
    /\ out.ok
    /\ out.rest = <<>>
    /\ BinderPositions(Tokens(src)) # {}
    /\ bind(Flatten(SwapAt(Tokens(src), 6))) = out

(***************************************************************************)
(* C9: a Call is produced only from a text where `@` is immediately        *)
(* followed by the callee identifier; `@` followed by a space fails as a   *)
(* call, a bare identifier followed by arguments is never a Call, and the  *)
(* expressions after the callee are the arguments in source order.         *)
(***************************************************************************)
Callee == <<"d","u","m","p">>

C9_CallNeedsSigil ==
    /\ (Applied("call") /\ out.ok) =>
           /\ Len(input) >= 2
           /\ input[1] = "@"
           /\ IsAlpha(input[2]) \/ input[2] = "_"
    /\ (src.fam = "call" /\ src.gap = SP /\ src.sigil = <<"@">> /\ Applied("call"))
           => ~out.ok
    /\ (src.fam = "call" /\ src.sigil = <<>>) =>
           /\ Applied("call") => ~out.ok
           /\ (Applied("expr") /\ out.ok) => out.val.t # "Call"
           /\ (Applied("instr") /\ out.ok /\ out.val.t = "Expr") => out.val.expr.t # "Call"
    /\ (src.fam = "call" /\ src.sigil = <<"@">> /\ src.gap = <<>>) =>
           /\ Applied("call") =>
                 (out.ok /\ out.rest = NL
                         /\ out.val = ExprCall(Callee, ExprAsts(src.args)))
           /\ Applied("expr") =>
                 (out.ok /\ out.rest = NL
                         /\ out.val = ExprCall(Callee, ExprAsts(src.args)))
           /\ Applied("instr") =>
                 (out.ok /\ out.rest = <<>>
                         /\ out.val = InstrExpr(ExprCall(Callee, ExprAsts(src.args))))

C9_Witness ==
    /\ src.fam = "call"
    /\ src.sigil = <<"@">>
    /\ src.gap = <<>>
    /\ Len(src.args) = 2
    /\ src.args[1] # src.args[2]
    /\ Applied("call")
    /\ out.ok
    /\ Len(out.val.args) = 2

(***************************************************************************)
(* C10: name accepts the longest run [A-Za-z_][A-Za-z0-9_]* at the start   *)
(* of the input, unless the whole run is one of exactly nine words, and    *)
(* then it fails; elsif, elif, do, mut, type, not and the identifiers that *)
(* only start with a reserved word are accepted.                           *)
(***************************************************************************)
RECURSIVE IdentCharRun(_)
IdentCharRun(in) ==
    IF in # <<>> /\ IsIdentChar(in[1]) THEN 1 + IdentCharRun(Tail(in)) ELSE 0

\* the length of the longest identifier-shaped run the input starts with
IdentRun(in) ==
    IF in # <<>> /\ (IsAlpha(in[1]) \/ in[1] = "_") THEN IdentCharRun(in) ELSE 0

NineWords ==
    { <<"l","e","t">>, <<"e","n","d">>, <<"t","r","u","e">>, <<"f","a","l","s","e">>,
      <<"i","f">>, <<"t","h","e","n">>, <<"e","l","s","e">>, <<"l","o","o","p">>,
      <<"b","r","e","a","k">> }

BindOrAssignText == src.fam \in {"stmt", "word"}

C11_AssignBindExclusive ==
    (BindOrAssignText /\ (Applied("assign") \/ Applied("bind")))
    => /\ ~(assign(input).ok /\ bind(input).ok)
       /\ (Applied("assign") /\ out.ok) => ~bind(input).ok
       /\ (Applied("bind") /\ out.ok) => ~assign(input).ok

\* `letn = 42`: assign takes the target letn, bind reads `let` and stops at `=`
C11_Witness ==
    /\ src.fam = "stmt"
    /\ src.form = "assign"
    /\ src.glued
    /\ src.id = <<"n">>
    /\ Applied("assign")
    /\ out.ok
    /\ out.val.target = <<"l","e","t","n">>
    /\ ~bind(input).ok


(***************************************************************************)
(* C12: for every identifier the Identifier rule accepts, the Expression   *)
(* rule applied to it consumes the whole identifier and yields the Name    *)
(* with its full text, and as the argument of a call it is one Name        *)
(* argument; this includes identifiers such as truex and falsey.           *)
(***************************************************************************)
\* the word of the text is, as a whole, an identifier the rule name accepts
WordIsIdentifier ==
    /\ src.fam = "word"
    /\ name(src.word) = Ok(<<>>, src.word)

\* the call `@dump <word>` on a line of its own
CallWithWord == <<"@","d","u","m","p"," ">> \o src.word \o NL

C12_IdentifierExprIsName ==
    /\ (src.fam = "word" /\ Applied("expr") /\ name(input).ok)
       => /\ out.ok
          /\ out.val = ExprName(name(input).val)
          /\ out.rest = space0(name(input).rest).rest
    /\ (WordIsIdentifier /\ Applied("call"))
       => call(CallWithWord) = Ok(NL, ExprCall(<<"d","u","m","p">>, <<ExprName(src.word)>>))


(***************************************************************************)
(* C13: for every identifier X the Identifier rule accepts, the text       *)
(* `let X: T = <expr>` and a line break, with no separate `mut` word, is   *)
(* parsed by bind as the immutable Bind with id X; MutableBind is produced *)
(* only when `mut` stands as a word of its own between `let` and the       *)
(* identifier.                                                             *)
(***************************************************************************)
\* `let X: T = <expr>` with X and T identifiers and `let` a word of its own
PlainBindText ==
    /\ src.fam = "stmt"
    /\ src.form = "bind"
    /\ ~src.glued
    /\ name(src.id) = Ok(<<>>, src.id)
    /\ name(src.ty) = Ok(<<>>, src.ty)

C13_BindWithoutMutIsImmutable ==
    /\ (PlainBindText /\ Applied("bind"))
       => /\ out.ok
          /\ out.rest = <<>>
          /\ out.val = InstrBind(src.id, src.ty, ExprPool[src.e].ast)
    /\ (src.fam = "stmt" /\ Applied("bind") /\ out.ok /\ out.val.t = "MutBind")
       => src.form = "mutbind"


(***************************************************************************)
(* C14: whitespace is skipped after a token and never before the first     *)
(* one: on an input whose first character is a space, a tab or a line      *)
(* break, func and ast fail, even when a well-formed declaration follows;  *)
(* the whitespace after the final `end` is consumed.                       *)
(***************************************************************************)
StartsWithWhitespace == input # <<>> /\ input[1] \in PadChars

\* the function the padded declaration denotes
PadDecl ==
    <<DeclName(1), DeclFunc(MkKind(<<>>, <<"T">>), <<StmtPool[src.body].ast>>)>>

C14_NoLeadingWhitespace ==
    /\ (StartsWithWhitespace /\ (Applied("func") \/ Applied("ast"))) => ~out.ok
    /\ (src.fam = "pad" /\ src.lead = <<>> /\ Applied("func"))
       => out = Ok(<<>>, PadDecl)
    /\ (src.fam = "pad" /\ src.lead = <<>> /\ Applied("ast"))
       => out = Ok(<<>>, [decls |-> collect(<<PadDecl>>)])

\* a line break before a declaration that, without it, is parsed
C14_Witness ==
    /\ src.fam = "pad"
    /\ src.lead = NL
    /\ src.trail = <<"\n", " ", "\t">>
    /\ Applied("ast")
    /\ ~out.ok
    /\ ast(Drop(input, 1)).ok
    /\ ast(Drop(input, 1)).rest = <<>>


====
